---- MODULE Spec2Model ----
(***************************************************************************)
(* Model of the Fantasy Basketball Dashboard (src/fantasy_dashboard.py).   *)
(*                                                                         *)
(* The dashboard is a single-threaded Qt program: every slot (button click *)
(* or dropdown change) runs to completion, so each slot is one action.     *)
(* Python strings are sequences of one-character strings, so that          *)
(* str.lower(), float() and the substring test `in` are computed.          *)
(* Python/numpy floats are exact rationals in lowest terms, extended with  *)
(* inf, -inf and nan (binary rounding is not modelled).                    *)
(***************************************************************************)
EXTENDS Integers, Sequences, FiniteSets, TLC

(***************************************************************************)
(* Floats                                                                  *)
(***************************************************************************)
Abs(n) == IF n < 0 THEN -n ELSE n

RECURSIVE GCD(_, _)
GCD(a, b) == IF b = 0 THEN a ELSE GCD(b, a % b)

\* the float n/d (d > 0), in lowest terms
Fin(n, d) ==
    LET g == GCD(Abs(n), d)
    IN  [k |-> "fin", n |-> n \div g, d |-> d \div g]

PInf == [k |-> "inf", n |-> 1, d |-> 0]
NInf == [k |-> "inf", n |-> -1, d |-> 0]
NaN == [k |-> "nan", n |-> 0, d |-> 0]

FromInt(i) == Fin(i, 1)

Sign(n) == IF n > 0 THEN 1 ELSE IF n < 0 THEN -1 ELSE 0

\* IEEE multiplication: nan is absorbing, inf * 0 is nan
FMul(a, b) ==
    IF a.k = "nan" \/ b.k = "nan" THEN NaN
    ELSE IF a.k = "inf" \/ b.k = "inf"
         THEN IF a.n = 0 \/ b.n = 0 THEN NaN
              ELSE IF Sign(a.n) * Sign(b.n) > 0 THEN PInf ELSE NInf
         ELSE Fin(a.n * b.n, a.d * b.d)

\* IEEE addition: inf + -inf is nan
FAdd(a, b) ==
    IF a.k = "nan" \/ b.k = "nan" THEN NaN
    ELSE IF a.k = "inf" /\ b.k = "inf"
         THEN IF a.n = b.n THEN a ELSE NaN
         ELSE IF a.k = "inf" THEN a
         ELSE IF b.k = "inf" THEN b
         ELSE Fin(a.n * b.d + b.n * a.d, a.d * b.d)

FNeg(a) == [a EXCEPT !.n = -a.n]

FSub(a, b) == FAdd(a, FNeg(b))

\* numpy true division of two float64 values: x/0 is +-inf, 0/0 is nan,
\* no exception is raised
FDiv(a, b) ==
    IF a.k = "nan" \/ b.k = "nan" THEN NaN
    ELSE IF a.k = "inf"
         THEN IF b.k = "inf" THEN NaN
              ELSE IF b.n < 0 THEN FNeg(a) ELSE a
         ELSE IF b.k = "inf" THEN Fin(0, 1)
         ELSE IF b.n = 0
              THEN IF a.n > 0 THEN PInf ELSE IF a.n < 0 THEN NInf ELSE NaN
              ELSE IF b.n > 0 THEN Fin(a.n * b.d, a.d * b.n)
                   ELSE Fin(-(a.n * b.d), a.d * (-b.n))

\* pandas division of two integer columns, element by element
IntDiv(a, b) == FDiv(FromInt(a), FromInt(b))

(***************************************************************************)
(* Strings                                                                 *)
(***************************************************************************)
Digits == {"0", "1", "2", "3", "4", "5", "6", "7", "8", "9"}

DigitVal(c) ==
    CASE c = "0" -> 0 [] c = "1" -> 1 [] c = "2" -> 2 [] c = "3" -> 3
      [] c = "4" -> 4 [] c = "5" -> 5 [] c = "6" -> 6 [] c = "7" -> 7
      [] c = "8" -> 8 [] c = "9" -> 9

\* str.lower() on one character
LowerChar(c) ==
    CASE c = "A" -> "a" [] c = "B" -> "b" [] c = "C" -> "c" [] c = "D" -> "d"
      [] c = "E" -> "e" [] c = "L" -> "l" [] c = "O" -> "o" [] c = "Y" -> "y"
      [] c = "Z" -> "z"
      [] OTHER -> c

\* str.lower()
Lower(s) == [i \in 1..Len(s) |-> LowerChar(s[i])]

\* the test narrowed to s.startswith(sub)
PyInPrefixOnly(sub, s) == Len(sub) <= Len(s) /\ SubSeq(s, 1, Len(sub)) = sub

RECURSIVE FindFrom(_, _, _)
\* scan of s for sub, starting at offset i
FindFrom(sub, s, i) ==
    IF i + Len(sub) > Len(s) THEN FALSE
    ELSE IF SubSeq(s, i + 1, i + Len(sub)) = sub THEN TRUE
    ELSE FindFrom(sub, s, i + 1)

\* the Python test `sub in s` on strings
PyIn(sub, s) == FindFrom(sub, s, 0)

RECURSIVE Strip(_)
\* str.strip() of blanks, which float() applies to its argument
Strip(s) ==
    IF s = << >> THEN s
    ELSE IF Head(s) = " " THEN Strip(Tail(s))
    ELSE IF s[Len(s)] = " " THEN Strip(SubSeq(s, 1, Len(s) - 1))
    ELSE s

RECURSIVE AllDigits(_)
AllDigits(s) == s = << >> \/ (Head(s) \in Digits /\ AllDigits(Tail(s)))

RECURSIVE DecVal(_, _)
\* value of a digit string, acc being the value of the digits already read
DecVal(s, acc) == IF s = << >> THEN acc ELSE DecVal(Tail(s), 10 * acc + DigitVal(Head(s)))

RECURSIVE Pow10(_)
Pow10(n) == IF n = 0 THEN 1 ELSE 10 * Pow10(n - 1)

\* index of the first "." of s, 0 when there is none
PointAt(s) ==
    IF \E i \in 1..Len(s) : s[i] = "."
    THEN CHOOSE i \in 1..Len(s) : s[i] = "." /\ \A j \in 1..(i - 1) : s[j] # "."
    ELSE 0

\* float(text) for the decimal literals [sign] digits [. digits]:
\* ok = FALSE stands for ValueError
ParseFloat(text) ==
    LET s == Strip(text)
        signed == s # << >> /\ Head(s) \in {"+", "-"}
        body == IF signed THEN Tail(s) ELSE s
        p == PointAt(body)
        ip == IF p = 0 THEN body ELSE SubSeq(body, 1, p - 1)
        fp == IF p = 0 THEN << >> ELSE SubSeq(body, p + 1, Len(body))
        wellFormed == AllDigits(ip) /\ AllDigits(fp) /\ Len(ip) + Len(fp) > 0
        mag == DecVal(ip \o fp, 0)
    IN  IF wellFormed
        THEN [ok |-> TRUE,
              v |-> Fin(IF signed /\ Head(s) = "-" THEN -mag ELSE mag, Pow10(Len(fp)))]
        ELSE [ok |-> FALSE, v |-> NaN]

(***************************************************************************)
(* Values                                                                  *)
(***************************************************************************)
\* Python's None
None == [tag |-> "None"]

\* a string literal, written character by character
S_Al == <<"A", "l">>
S_Bo == <<"B", "o">>
S_Cy == <<"C", "y">>
S_All == <<"A", "l", "l">>
S_Guard == <<"G", "u", "a", "r", "d">>
S_Forward == <<"F", "o", "r", "w", "a", "r", "d">>
S_Center == <<"C", "e", "n", "t", "e", "r">>
S_Dash == <<"-">>

\* an entry of players.get_active_players()
Player(id, name) == [tag |-> "player", id |-> id, full_name |-> name]

\* the keys of fantasy_settings, in the insertion order the dict iterates in
StatKeys == <<"PTS", "REB", "AST", "STL", "BLK", "TO">>

DefaultSettings ==
    [key \in {"PTS", "REB", "AST", "STL", "BLK", "TO"} |->
        CASE key = "PTS" -> Fin(1, 1)
          [] key = "REB" -> Fin(12, 10)
          [] key = "AST" -> Fin(15, 10)
          [] key = "STL" -> Fin(3, 1)
          [] key = "BLK" -> Fin(3, 1)
          [] key = "TO" -> Fin(-1, 1)]

\* one row of the career table returned by the stats endpoint
Season(sid, gp, pts, reb, ast, stl, blk) ==
    [SEASON_ID |-> sid, GP |-> gp, PTS |-> pts, REB |-> reb, AST |-> ast,
     STL |-> stl, BLK |-> blk]

\* the same row in a table that has a TO column
WithTO(row, to) == row @@ [TO |-> to]

\* a career table: its column names and its rows, oldest season first
Table(hasTO, rows) ==
    [columns |-> {"SEASON_ID", "GP", "PTS", "REB", "AST", "STL", "BLK"}
                    \cup (IF hasTO THEN {"TO"} ELSE {}),
     rows |-> rows]

(***************************************************************************)
(* State                                                                   *)
(***************************************************************************)
VARIABLES
    all_players,            \* self.all_players
    player_positions,       \* self.player_positions (player_positions.json)
    upstream,               \* the stats service: player id -> career table
    current_player_1,       \* self.current_player_1
    current_player_2,       \* self.current_player_2
    data_1,                 \* self.data_1
    data_2,                 \* self.data_2
    fantasy_settings,       \* self.fantasy_settings
    normalization_dropdown, \* self.normalization_dropdown.currentText()
    figure,                 \* the lines held by self.figure
    projection_label,       \* self.projection_label
    projection_figure,      \* the bar chart held by self.projection_figure
    position_dropdown,      \* self.position_dropdown.currentText()
    player_list_widget,     \* the items of self.player_list_widget
    stdout,                 \* the last line printed
    uncaught,               \* the exception that left the last slot, or "none"
    request                 \* the last slot run: its name, inputs and upstream calls

vars == <<all_players, player_positions, upstream, current_player_1,
          current_player_2, data_1, data_2, fantasy_settings,
          normalization_dropdown, figure, projection_label, projection_figure,
          position_dropdown, player_list_widget, stdout, uncaught, request>>

\* the record of a slot run: player_num and the matched player's id are 0
\* when the slot has none, calls counts the calls made to the stats service
Request(op, player_num, player_id, outcome, calls) ==
    [op |-> op, num |-> player_num, matched |-> player_id # 0,
     player |-> player_id, fetch |-> outcome, calls |-> calls]

(***************************************************************************)
(* save_settings                                                           *)
(***************************************************************************)
RECURSIVE SaveLoop(_, _, _)
\* the for loop of save_settings from its i-th key on: each key is assigned
\* as soon as its text is parsed, and ValueError leaves the loop
SaveLoop(settings, texts, i) ==
    IF i > Len(StatKeys) THEN [settings |-> settings, raised |-> FALSE]
    ELSE LET parsed == ParseFloat(texts[StatKeys[i]])
         IN  IF parsed.ok
             THEN SaveLoop([settings EXCEPT ![StatKeys[i]] = parsed.v], texts, i + 1)
             ELSE [settings |-> settings, raised |-> TRUE]

\* the button as it would be if a save also dropped the loaded frames
save_settings_clearing(texts) ==
    LET done == SaveLoop(fantasy_settings, texts, 1)
    IN  /\ fantasy_settings' = done.settings
        /\ stdout' = IF done.raised THEN "Invalid input. Please enter numeric values."
                     ELSE "Settings saved successfully."
        /\ uncaught' = "none"
        /\ request' = Request("save_settings", 0, 0, "none", 0)
        /\ data_1' = None
        /\ data_2' = None
        /\ UNCHANGED <<all_players, player_positions, upstream, current_player_1,
                       current_player_2, normalization_dropdown,
                       figure, projection_label, projection_figure,
                       position_dropdown, player_list_widget>>

\* the Save Settings button, texts being the contents of the six input fields
save_settings(texts) ==
    LET done == SaveLoop(fantasy_settings, texts, 1)
    IN  /\ fantasy_settings' = done.settings
        /\ stdout' = IF done.raised THEN "Invalid input. Please enter numeric values."
                     ELSE "Settings saved successfully."
        /\ uncaught' = "none"
        /\ request' = Request("save_settings", 0, 0, "none", 0)
        /\ UNCHANGED <<all_players, player_positions, upstream, current_player_1,
                       current_player_2, data_1, data_2, normalization_dropdown,
                       figure, projection_label, projection_figure,
                       position_dropdown, player_list_widget>>

(***************************************************************************)
(* load_player_data                                                        *)
(***************************************************************************)
\* next(p for p in all_players if p.full_name.lower() == name.lower(), None)
MatchPlayer(players, name) ==
    LET hits == {i \in 1..Len(players) : Lower(players[i].full_name) = Lower(name)}
    IN  IF hits = {} THEN None
        ELSE players[CHOOSE i \in hits : \A j \in hits : i <= j]

\* if 'TO' not in df.columns: df['TO'] = 0
EnsureTO(df) ==
    IF "TO" \in df.columns THEN df
    ELSE [columns |-> df.columns \cup {"TO"},
          rows |-> [i \in 1..Len(df.rows) |-> df.rows[i] @@ [TO |-> 0]]]

\* the weighted sum taken over per-game rates instead of season totals
FantasyScoreOfRates(row, settings) ==
    FSub(FAdd(FAdd(FAdd(FAdd(FMul(IntDiv(row.PTS, row.GP), settings["PTS"]),
                             FMul(IntDiv(row.REB, row.GP), settings["REB"])),
                        FMul(IntDiv(row.AST, row.GP), settings["AST"])),
                   FMul(IntDiv(row.STL, row.GP), settings["STL"])),
              FMul(IntDiv(row.BLK, row.GP), settings["BLK"])),
         FMul(IntDiv(row.TO, row.GP), settings["TO"]))

\* the weighted sum of one row's season totals
FantasyScore(row, settings) ==
    FSub(FAdd(FAdd(FAdd(FAdd(FMul(FromInt(row.PTS), settings["PTS"]),
                             FMul(FromInt(row.REB), settings["REB"])),
                        FMul(FromInt(row.AST), settings["AST"])),
                   FMul(FromInt(row.STL), settings["STL"])),
              FMul(FromInt(row.BLK), settings["BLK"])),
         FMul(FromInt(row.TO), settings["TO"]))

\* the columns load_player_data derives and returns for one row
DerivedRow(row, settings) ==
    [SEASON_ID |-> row.SEASON_ID,
     FantasyScore |-> FantasyScore(row, settings),
     PointsPerGame |-> IntDiv(row.PTS, row.GP),
     Assists |-> IntDiv(row.AST, row.GP),
     Rebounds |-> IntDiv(row.REB, row.GP),
     Efficiency |-> IntDiv(row.PTS + row.REB + row.AST, row.GP),
     Steals |-> IntDiv(row.STL, row.GP),
     Blocks |-> IntDiv(row.BLK, row.GP)]

\* the frame load_player_data returns for the career table of player id:
\* no Player and no Career Year column yet
load_player_data(id, table, settings) ==
    LET df == EnsureTO(table)
    IN  [tag |-> "df", player_id |-> id,
         rows |-> [i \in 1..Len(df.rows) |-> DerivedRow(df.rows[i], settings)],
         Player |-> None, CareerYear |-> FALSE]

\* the exception the endpoint call raises for a failed fetch
FetchError(outcome) ==
    IF outcome = "timeout" THEN "ReadTimeout" ELSE "RateLimited"

(***************************************************************************)
(* update_plot                                                             *)
(***************************************************************************)
\* data_k after update_plot has labelled it with current_player_k
Labelled(data, player, norm) ==
    IF data = None THEN None
    ELSE [data EXCEPT !.Player = player.full_name,
                      !.CareerYear = @ \/ norm = "Career Year"]

\* the names in combined_df['Player'].unique()
PlottedNames(d1, d2) ==
    {d.Player : d \in {x \in {d1, d2} : x # None /\ Len(x.rows) > 0}}

\* update_plot run on the given slots: the slots, the figure and the
\* exception it leaves with
update_plot(cp1, cp2, d1, d2, fig, norm) ==
    IF d1 = None /\ d2 = None
    THEN [data_1 |-> d1, data_2 |-> d2, figure |-> fig, uncaught |-> "none"]
    ELSE LET l1 == Labelled(d1, cp1, norm)
             l2 == Labelled(d2, cp2, norm)
             names == PlottedNames(l1, l2)
         IN  IF names # {} /\ cp1 = None
             THEN \* None['full_name'] in the marker expression
                  [data_1 |-> l1, data_2 |-> l2, figure |-> {},
                   uncaught |-> "TypeError"]
             ELSE [data_1 |-> l1, data_2 |-> l2,
                   figure |-> {[label |-> nm,
                                marker |-> IF nm = cp1.full_name THEN "o" ELSE "x"] :
                               nm \in names},
                   uncaught |-> "none"]

\* update_plot as a slot of its own (a dropdown's currentIndexChanged)
PlotSlot(op, norm) ==
    LET res == update_plot(current_player_1, current_player_2, data_1, data_2,
                           figure, norm)
    IN  /\ normalization_dropdown' = norm
        /\ data_1' = res.data_1
        /\ data_2' = res.data_2
        /\ figure' = res.figure
        /\ uncaught' = res.uncaught
        /\ request' = Request(op, 0, 0, "none", 0)
        /\ UNCHANGED <<all_players, player_positions, upstream, current_player_1,
                       current_player_2, fantasy_settings, projection_label,
                       projection_figure, position_dropdown, player_list_widget,
                       stdout>>

\* the user picks another entry of the normalization dropdown
normalization_changed(norm) ==
    /\ norm # normalization_dropdown
    /\ PlotSlot("normalization_changed", norm)

\* the user picks another entry of the metric dropdown: the metric only
\* selects the column that is drawn, which the figure here does not record
metric_changed == PlotSlot("metric_changed", normalization_dropdown)

(***************************************************************************)
(* search_player                                                           *)
(***************************************************************************)
\* both slots assigned, whichever was searched
AssignBothSlots(player_num, k, value, old) == value

\* the value of slot k after `if player_num == 1: slot 1 = value, else:
\* slot 2 = value`, old being the value slot k had
AssignSlot(player_num, k, value, old) ==
    IF player_num = 1
    THEN IF k = 1 THEN value ELSE old
    ELSE IF k = 2 THEN value ELSE old

\* the Search Player button of slot player_num, text being the search bar's
\* content and outcome what the stats service does with the one call made
search_player(player_num, text, outcome) ==
    LET matched_player == MatchPlayer(all_players, text)
        cp1 == AssignSlot(player_num, 1, matched_player, current_player_1)
        cp2 == AssignSlot(player_num, 2, matched_player, current_player_2)
        df == load_player_data(matched_player.id, upstream[matched_player.id],
                               fantasy_settings)
        res == update_plot(cp1, cp2,
                           AssignSlot(player_num, 1, df, data_1),
                           AssignSlot(player_num, 2, df, data_2),
                           figure, normalization_dropdown)
    IN  IF matched_player = None
        THEN /\ uncaught' = "none"
             /\ request' = Request("search_player", player_num, 0, "none", 0)
             /\ UNCHANGED <<all_players, player_positions, upstream,
                            current_player_1, current_player_2, data_1, data_2,
                            fantasy_settings, normalization_dropdown, figure,
                            projection_label, projection_figure,
                            position_dropdown, player_list_widget, stdout>>
        ELSE /\ current_player_1' = cp1
             /\ current_player_2' = cp2
             /\ request' = Request("search_player", player_num,
                                   matched_player.id, outcome, 1)
             /\ IF outcome = "ok"
                THEN /\ data_1' = res.data_1
                     /\ data_2' = res.data_2
                     /\ figure' = res.figure
                     /\ uncaught' = res.uncaught
                ELSE /\ uncaught' = FetchError(outcome)
                     /\ UNCHANGED <<data_1, data_2, figure>>
             /\ UNCHANGED <<all_players, player_positions, upstream,
                            fantasy_settings, normalization_dropdown,
                            projection_label, projection_figure,
                            position_dropdown, player_list_widget, stdout>>

(***************************************************************************)
(* generate_projections                                                    *)
(***************************************************************************)
\* the Fantasy Score Per Game column of one row
FantasyScorePerGame(row, settings) ==
    FSub(FAdd(FAdd(FAdd(FAdd(FMul(IntDiv(row.PTS, row.GP), settings["PTS"]),
                             FMul(IntDiv(row.REB, row.GP), settings["REB"])),
                        FMul(IntDiv(row.AST, row.GP), settings["AST"])),
                   FMul(IntDiv(row.STL, row.GP), settings["STL"])),
              FMul(IntDiv(row.BLK, row.GP), settings["BLK"])),
         FMul(IntDiv(row.TO, row.GP), settings["TO"]))

\* df.iloc[0] in place of df.iloc[-1]
EarliestSeason(df) == df.rows[1]

\* df.iloc[-1] of a frame that has rows
LatestSeason(df) == df.rows[Len(df.rows)]

\* the projections dict built from the career table
Projections(table, settings) ==
    LET latest_season == LatestSeason(EnsureTO(table))
    IN  [Points |-> IntDiv(latest_season.PTS, latest_season.GP),
         Rebounds |-> IntDiv(latest_season.REB, latest_season.GP),
         Assists |-> IntDiv(latest_season.AST, latest_season.GP),
         FantasyScore |-> FantasyScorePerGame(latest_season, settings)]

\* the Search button of the projections tab
generate_projections(text, outcome) ==
    LET matched_player == MatchPlayer(all_players, text)
        table == upstream[matched_player.id]
    IN  /\ IF matched_player = None
           THEN /\ projection_label' = "Player not found! Try again."
                /\ uncaught' = "none"
                /\ request' = Request("generate_projections", 0, 0, "none", 0)
                /\ UNCHANGED projection_figure
           ELSE /\ request' = Request("generate_projections", 0,
                                      matched_player.id, outcome, 1)
                /\ IF outcome # "ok"
                   THEN /\ uncaught' = FetchError(outcome)
                        /\ UNCHANGED <<projection_label, projection_figure>>
                   ELSE IF Len(table.rows) = 0
                   THEN \* df.iloc[-1] on a frame without rows
                        /\ uncaught' = "IndexError"
                        /\ UNCHANGED <<projection_label, projection_figure>>
                   ELSE /\ uncaught' = "none"
                        /\ projection_label' = "Projected Stats for Next Game"
                        /\ projection_figure' =
                               [title |-> matched_player.full_name,
                                values |-> Projections(table, fantasy_settings)]
        /\ UNCHANGED <<all_players, player_positions, upstream, current_player_1,
                       current_player_2, data_1, data_2, fantasy_settings,
                       normalization_dropdown, figure, position_dropdown,
                       player_list_widget, stdout>>

(***************************************************************************)
(* filter_players_by_position                                              *)
(***************************************************************************)
RECURSIVE FilterLoop(_, _)
\* [player for player in players if position in player['position']]
FilterLoop(players, position) ==
    IF players = << >> THEN << >>
    ELSE IF PyIn(position, Head(players).position)
         THEN <<Head(players)>> \o FilterLoop(Tail(players), position)
         ELSE FilterLoop(Tail(players), position)

\* the user picks another entry of the position dropdown
filter_players_by_position(position) ==
    LET filtered_players == IF position = S_All THEN player_positions
                            ELSE FilterLoop(player_positions, position)
    IN  /\ position # position_dropdown
        /\ position_dropdown' = position
        /\ player_list_widget' =
               [i \in 1..Len(filtered_players) |-> filtered_players[i].name]
        /\ uncaught' = "none"
        /\ request' = Request("filter_players_by_position", 0, 0, "none", 0)
        /\ UNCHANGED <<all_players, player_positions, upstream, current_player_1,
                       current_player_2, data_1, data_2, fantasy_settings,
                       normalization_dropdown, figure, projection_label,
                       projection_figure, stdout>>

(***************************************************************************)
(* The dashboard                                                           *)
(***************************************************************************)
\* FantasyDashboard.__init__ for a given player list, index file, stats
\* service and settings
Construct(players, positions, service, settings) ==
    /\ all_players = players
    /\ player_positions = positions
    /\ upstream = service
    /\ current_player_1 = None
    /\ current_player_2 = None
    /\ data_1 = None
    /\ data_2 = None
    /\ fantasy_settings = settings
    /\ normalization_dropdown = "Season Year"
    /\ figure = {}
    /\ projection_label = "Projection Details will appear here."
    /\ projection_figure = None
    /\ position_dropdown = S_All
    /\ player_list_widget = [i \in 1..Len(players) |-> players[i].full_name]
    /\ stdout = ""
    /\ uncaught = "none"
    /\ request = Request("__init__", 0, 0, "none", 0)

\* the active players of the runs checked
ActivePlayers == <<Player(1, S_Al), Player(2, S_Bo), Player(3, S_Cy)>>

\* an entry of player_positions.json
IndexEntry(id, name, position) == [id |-> id, name |-> name, position |-> position]

IndexFile ==
    <<IndexEntry(1, S_Al, S_Guard \o S_Dash \o S_Forward),
      IndexEntry(2, S_Bo, S_Center),
      IndexEntry(3, S_Cy, S_Guard)>>

ExampleSeason == WithTO(Season("2021-22", 70, 1750, 350, 280, 70, 35), 140)

\* the career tables the stats service holds: Al has two seasons, Bo one
\* season without a game and no TO column, Cy has no season yet
CareerTables ==
    (1 :> Table(TRUE, <<ExampleSeason,
                        WithTO(Season("2022-23", 2, 5, 3, 7, 1, 11), 13)>>))
    @@ (2 :> Table(FALSE, <<Season("2022-23", 0, 0, 3, 1, 2, 0)>>))
    @@ (3 :> Table(TRUE, << >>))

\* what the user types into the search bar of the projections tab
SearchTexts == {<<"a", "l">>, <<"B", "O">>, S_Cy, <<"A">>, <<"Z", "e", "d">>}

\* what the user types into the search bars of the comparison tab
CompareTexts == {<<"a", "l">>, <<"B", "O">>, <<"A">>}

\* what the stats service does with one call
Outcomes == {"ok", "timeout", "ratelimit"}

Normalizations == {"Season Year", "Career Year"}

KeySet == {StatKeys[i] : i \in 1..Len(StatKeys)}

\* the contents of the six input fields as the settings tab shows them first
DefaultTexts ==
    [key \in KeySet |->
        CASE key = "PTS" -> <<"1">>
          [] key = "REB" -> <<"1", ".", "2">>
          [] key = "AST" -> <<"1", ".", "5">>
          [] key = "STL" -> <<"3">>
          [] key = "BLK" -> <<"3">>
          [] key = "TO" -> <<"-", "1">>]

\* the forms the user saves in the runs of the whole dashboard
Forms ==
    {[DefaultTexts EXCEPT !["PTS"] = <<"2">>],
     [DefaultTexts EXCEPT !["PTS"] = <<"3">>, !["REB"] = <<"x">>]}

Init == Construct(ActivePlayers, IndexFile, CareerTables, DefaultSettings)

\* the Compare Players tab and the Settings tab
Next ==
    \/ \E player_num \in {1, 2}, text \in CompareTexts, outcome \in Outcomes :
           search_player(player_num, text, outcome)
    \/ \E norm \in Normalizations : normalization_changed(norm)
    \/ metric_changed
    \/ \E texts \in Forms : save_settings(texts)

Spec == Init /\ [][Next]_vars

\* the Per-Game Projections tab and the Settings tab
NextProjections ==
    \/ \E text \in SearchTexts, outcome \in Outcomes :
           generate_projections(text, outcome)
    \/ \E texts \in Forms : save_settings(texts)

SpecProjections == Init /\ [][NextProjections]_vars

(***************************************************************************)
(* The Settings tab alone, over every form of six texts                    *)
(***************************************************************************)
\* what the user types into one input field: 2, .5 between blanks, and a
\* text float() rejects
InputTexts == {<<"2">>, <<" ", ".", "5", " ">>, <<"1", "x">>}

NextSettings == \E texts \in [KeySet -> InputTexts] : save_settings(texts)

SpecSettings == Init /\ [][NextSettings]_vars

(***************************************************************************)
(* One player's search and projection, over career tables and settings     *)
(***************************************************************************)
MaxSeasons == 2

\* season rows the stats service may hold, oldest first: the second and
\* third have no game played
SeasonPool ==
    <<ExampleSeason,
      WithTO(Season("2022-23", 0, 4, 3, 1, 2, 0), 5),
      WithTO(Season("2023-24", 0, 0, 0, 0, 0, 0), 0),
      WithTO(Season("2024-25", 2, 5, 3, 7, 1, 11), 13)>>

\* the row as a table without TO column holds it
DropTO(row) == Season(row.SEASON_ID, row.GP, row.PTS, row.REB, row.AST, row.STL, row.BLK)

\* the chronological selections of at most MaxSeasons rows of the pool
Careers ==
    {idx \in UNION {[1..n -> 1..Len(SeasonPool)] : n \in 0..MaxSeasons} :
        \A i \in 1..(Len(idx) - 1) : idx[i] < idx[i + 1]}

TablePool ==
    {Table(TRUE, [i \in 1..Len(idx) |-> SeasonPool[idx[i]]]) : idx \in Careers}
    \cup {Table(FALSE, [i \in 1..Len(idx) |-> DropTO(SeasonPool[idx[i]])]) : idx \in Careers}

\* settings the user can have saved: the defaults, six distinct weights,
\* and weights with a zero
SettingsPool ==
    {DefaultSettings,
     SaveLoop(DefaultSettings,
              [key \in KeySet |->
                  CASE key = "PTS" -> <<"2">>
                    [] key = "REB" -> <<".", "5">>
                    [] key = "AST" -> <<"7">>
                    [] key = "STL" -> <<"-", "3">>
                    [] key = "BLK" -> <<"1", "1">>
                    [] key = "TO" -> <<"1", ".", "5">>], 1).settings,
     SaveLoop(DefaultSettings,
              [DefaultTexts EXCEPT !["PTS"] = <<"0">>, !["TO"] = <<"2">>], 1).settings}

InitMetrics ==
    \E table \in TablePool, settings \in SettingsPool :
        Construct(ActivePlayers, IndexFile, [CareerTables EXCEPT ![1] = table],
                  settings)

NextMetrics ==
    \/ \E player_num \in {1, 2} : search_player(player_num, S_Al, "ok")
    \/ generate_projections(S_Al, "ok")

SpecMetrics == InitMetrics /\ [][NextMetrics]_vars

(***************************************************************************)
(* The Position Filter tab, over index files                               *)
(***************************************************************************)
MaxIndex == 2

\* entries player_positions.json may hold
EntryPool ==
    {IndexEntry(1, S_Al, S_Guard \o S_Dash \o S_Forward),
     IndexEntry(2, S_Bo, S_Center),
     IndexEntry(3, S_Cy, S_Guard),
     IndexEntry(4, S_Al, S_Forward \o S_Dash \o S_Center),
     IndexEntry(5, S_Bo, << >>)}

IndexFiles == UNION {[1..n -> EntryPool] : n \in 0..MaxIndex}

Positions == {S_All, S_Guard, S_Forward, S_Center}

InitFilter ==
    \E positions \in IndexFiles :
        Construct(ActivePlayers, positions, CareerTables, DefaultSettings)

NextFilter == \E position \in Positions : filter_players_by_position(position)

SpecFilter == InitFilter /\ [][NextFilter]_vars

(***************************************************************************)
(* Searches, projections and saves of settings, every fetch succeeding     *)
(***************************************************************************)
\* the names typed while the settings are edited
WeightTexts == {<<"a", "l">>, <<"B", "O">>}

NextWeights ==
    \/ \E player_num \in {1, 2}, text \in WeightTexts :
           search_player(player_num, text, "ok")
    \/ \E text \in WeightTexts : generate_projections(text, "ok")
    \/ \E texts \in Forms : save_settings(texts)

SpecWeights == Init /\ [][NextWeights]_vars

(***************************************************************************)
(* Properties                                                              *)
(***************************************************************************)
\* C1: save_settings is all-or-nothing: a save that meets a text float()
\* rejects leaves all six settings as they were.
C1_AllOrNothing ==
    [][(request'.op = "save_settings"
          /\ stdout' = "Invalid input. Please enter numeric values.")
       => fantasy_settings' = fantasy_settings]_vars

\* the turnovers of a row of the stats service, 0 without a TO column
TurnoversOf(row) == IF "TO" \in DOMAIN row THEN row.TO ELSE 0

\* C2: zero-games policy: no season without a game appears in a slot's
\* derived metrics, and no projection is made from such a season.
C2_ZeroGamesPolicy ==
    /\ \A data \in {data_1, data_2} :
          data # None =>
             \A i \in 1..Len(data.rows) :
                \A j \in 1..Len(upstream[1].rows) :
                   upstream[1].rows[j].SEASON_ID = data.rows[i].SEASON_ID
                      => upstream[1].rows[j].GP # 0
    /\ projection_figure # None
          => upstream[1].rows[Len(upstream[1].rows)].GP # 0

\* the common denominator of the six settings
WeightDen ==
    fantasy_settings["PTS"].d * fantasy_settings["REB"].d
        * fantasy_settings["AST"].d * fantasy_settings["STL"].d
        * fantasy_settings["BLK"].d * fantasy_settings["TO"].d

\* amount * settings[key] * WeightDen, an integer
Weighted(amount, key) ==
    amount * fantasy_settings[key].n * (WeightDen \div fantasy_settings[key].d)

\* WeightDen times the weighted sum of a row's season totals
WeightedTotals(row) ==
    Weighted(row.PTS, "PTS") + Weighted(row.REB, "REB") + Weighted(row.AST, "AST")
        + Weighted(row.STL, "STL") + Weighted(row.BLK, "BLK")
        - Weighted(TurnoversOf(row), "TO")

\* C3: the Fantasy Score of every derived season is the weighted sum of the
\* season totals (turnovers subtracted, 0 without a TO column), not of
\* per-game rates.
C3_ScoreOnSeasonTotals ==
    \A data \in {data_1, data_2} :
       data # None =>
          /\ Len(data.rows) = Len(upstream[1].rows)
          /\ \A i \in 1..Len(data.rows) :
                /\ data.rows[i].FantasyScore.k = "fin"
                /\ data.rows[i].FantasyScore.n * WeightDen
                      = data.rows[i].FantasyScore.d
                           * WeightedTotals(upstream[1].rows[i])

\* the example season with the default settings scores 3045
C3_Witness ==
    /\ fantasy_settings = DefaultSettings
    /\ data_1 # None
    /\ upstream[1].rows = <<ExampleSeason>>
    /\ data_1.rows[1].FantasyScore = FromInt(3045)

\* the float v is amount / games
IsRate(v, amount, games) == v.k = "fin" /\ v.n * games = amount * v.d

\* C4: a projection made from a career whose last season has games played
\* holds that season's per-game points, rebounds and assists and the
\* weighted sum of that season's per-game rates; no other season counts.
C4_ProjectionFromLastSeason ==
    LET last == upstream[1].rows[Len(upstream[1].rows)]
        values == projection_figure.values
    IN  (projection_figure # None /\ last.GP > 0) =>
           /\ IsRate(values.Points, last.PTS, last.GP)
           /\ IsRate(values.Rebounds, last.REB, last.GP)
           /\ IsRate(values.Assists, last.AST, last.GP)
           /\ values.FantasyScore.k = "fin"
           /\ values.FantasyScore.n * WeightDen * last.GP
                 = values.FantasyScore.d * WeightedTotals(last)

\* a projection from a two-season career whose seasons differ
C4_Witness ==
    /\ projection_figure # None
    /\ Len(upstream[1].rows) >= 2
    /\ upstream[1].rows[1].SEASON_ID = "2021-22"
    /\ upstream[1].rows[Len(upstream[1].rows)].SEASON_ID = "2024-25"
    /\ projection_figure.values.Points = Fin(5, 2)

\* C5: a projection asked for a player without seasons ends with a status
\* message in the projection label, not with an exception and not with a
\* projection.
C5_EmptySeasonListReported ==
    (request.op = "generate_projections" /\ request.fetch = "ok"
        /\ Len(upstream[request.player].rows) = 0)
    => /\ uncaught = "none"
       /\ projection_label \notin {"Projection Details will appear here.",
                                   "Projected Stats for Next Game"}

\* C6: a lookup without match is shown to the user, changes neither the
\* slots nor the settings and calls the stats service not at all.
C6_NotFoundReported ==
    [][(request'.op \in {"search_player", "generate_projections"}
          /\ ~request'.matched)
       => /\ UNCHANGED <<current_player_1, current_player_2, data_1, data_2,
                         fantasy_settings>>
          /\ request'.calls = 0
          /\ \/ projection_label' = "Player not found! Try again."
             \/ stdout' # stdout
             \/ figure' # figure]_vars

\* the entry's position contains the selected token, or All is selected
ListedUnder(entry) ==
    \/ position_dropdown = S_All
    \/ \E i \in 1..Len(entry.position) : \E j \in i..Len(entry.position) :
          SubSeq(entry.position, i, j) = position_dropdown

\* C7: after a position is selected the list shows, in index order, exactly
\* the names of the index entries whose position contains the selection,
\* and every entry for All.
C7_FilterByPosition ==
    request.op = "filter_players_by_position" =>
       LET listed == SelectSeq(player_positions, ListedUnder)
       IN  player_list_widget = [i \in 1..Len(listed) |-> listed[i].name]

\* Guard is selected, a Guard-Forward is listed and another entry is not
C7_Witness ==
    /\ request.op = "filter_players_by_position"
    /\ position_dropdown = S_Guard
    /\ Len(player_positions) = 2
    /\ player_positions[2].position = S_Guard \o S_Dash \o S_Forward
    /\ player_positions[1].position = S_Center
    /\ player_list_widget = <<player_positions[2].name>>

\* C8: a request that ends on a timeout has called the stats service three
\* times, one that ends on a rate limit once, and none more than three
\* times.
C8_RetryPolicy ==
    /\ uncaught = "ReadTimeout" => request.calls = 3
    /\ uncaught = "RateLimited" => request.calls = 1
    /\ request.calls <= 3

\* slot k's data is drawn by update_plot run on the next state
UsableAfter(k) ==
    LET data == IF k = 1 THEN data_1' ELSE data_2'
        player == IF k = 1 THEN current_player_1' ELSE current_player_2'
        res == update_plot(current_player_1', current_player_2', data_1',
                           data_2', figure', normalization_dropdown')
    IN  data # None =>
           /\ res.uncaught = "none"
           /\ Len(data.rows) > 0 =>
                 \E line \in res.figure : line.label = player.full_name

C10_SlotConsistency ==
    /\ data_1 = None <=> current_player_1 = None
    /\ data_1 # None => data_1.player_id = current_player_1.id
    /\ data_2 = None <=> current_player_2 = None
    /\ data_2 # None => data_2.player_id = current_player_2.id

\* C11: the slots can be searched in any order: a search whose fetch
\* succeeds, and a dropdown change, ends without exception whenever a slot
\* holds data, also when slot 1 has never been searched.
C11_AnyOrder ==
    (request.op \in {"search_player", "normalization_changed", "metric_changed"}
        /\ request.fetch \in {"ok", "none"}
        /\ (data_1 # None \/ data_2 # None))
    => uncaught = "none"

\* the common denominator of the given settings
DenOf(settings) ==
    settings["PTS"].d * settings["REB"].d * settings["AST"].d
        * settings["STL"].d * settings["BLK"].d * settings["TO"].d

\* DenOf(settings) times the sum of amounts[key] * settings[key], the
\* turnovers subtracted
SumUnder(amounts, settings) ==
    LET term(key) == amounts[key] * settings[key].n
                        * (DenOf(settings) \div settings[key].d)
    IN  term("PTS") + term("REB") + term("AST") + term("STL") + term("BLK")
            - term("TO")

\* the season totals of a row of the stats service, by settings key
TotalsOf(row) ==
    [key \in KeySet |-> IF key = "TO" THEN TurnoversOf(row) ELSE row[key]]

\* the float score is the weighted sum of the row's totals under the
\* settings, divided by games
ScoreUnder(score, row, settings, games) ==
    /\ score.k = "fin"
    /\ score.n * DenOf(settings) * games = score.d * SumUnder(TotalsOf(row), settings)

\* every Fantasy Score of the frame is the one the settings give
FrameUnder(data, settings) ==
    /\ Len(data.rows) = Len(upstream[data.player_id].rows)
    /\ \A i \in 1..Len(data.rows) :
          ScoreUnder(data.rows[i].FantasyScore,
                     upstream[data.player_id].rows[i], settings, 1)

\* C12: a successful save changes the settings and neither slot: a loaded
\* frame keeps its Fantasy Scores, so a frame that had the scores of the
\* settings before the save no longer has those of the settings in force
\* when they differ; the search and the projection that follow are computed
\* with the settings in force.
C12_SaveKeepsLoadedScores ==
    [][/\ (request'.op = "save_settings"
             /\ stdout' = "Settings saved successfully.")
          => /\ UNCHANGED <<current_player_1, current_player_2, data_1, data_2,
                            figure, projection_figure>>
             /\ \A data \in {data_1', data_2'} :
                   (data # None /\ FrameUnder(data, fantasy_settings)
                       /\ \E i \in 1..Len(data.rows) :
                             ~ScoreUnder(data.rows[i].FantasyScore,
                                         upstream[data.player_id].rows[i],
                                         fantasy_settings', 1))
                   => ~FrameUnder(data, fantasy_settings')
       /\ (request'.op = "search_player" /\ request'.fetch = "ok")
          => LET data == IF request'.num = 1 THEN data_1' ELSE data_2'
             IN  data.player_id = request'.player
                    /\ FrameUnder(data, fantasy_settings')
       /\ (request'.op = "generate_projections" /\ request'.fetch = "ok"
             /\ uncaught' = "none")
          => LET rows == upstream[request'.player].rows
                 last == rows[Len(rows)]
             IN  last.GP > 0 =>
                    ScoreUnder(projection_figure'.values.FantasyScore, last,
                               fantasy_settings', last.GP)]_vars

\* a save has succeeded and slot 1 holds scores that are no longer those of
\* the settings in force
C12_Witness ==
    /\ request.op = "save_settings"
    /\ stdout = "Settings saved successfully."
    /\ data_1 # None
    /\ Len(data_1.rows) > 0
    /\ ~FrameUnder(data_1, fantasy_settings)
    /\ data_1.rows[1].FantasyScore = FromInt(3045)
    /\ fantasy_settings["PTS"] = FromInt(2)

====
